---- MODULE Spec2Model ----
(***************************************************************************)
(* Certificate lifecycle manager (src/src/certs.ts, lines 78-196) and the  *)
(* local network identity resolver (src/unnamed/part_001) of sticker-dream.*)
(*                                                                         *)
(* The state is the certs/ directory (key.pem, cert.pem, the key's         *)
(* permission bits), the wall clock, the platform's interface list and the *)
(* position of the caller inside ensureCerts()/generateCerts().            *)
(* generateCerts() is split at its three file-system effects (mkdir, the   *)
(* openssl subprocess, chmod) because the directory is observable between  *)
(* them.  The openssl subprocess is outside the repository: its outcomes   *)
(* (missing tool, non-zero exit before or after the key is written, I/O    *)
(* error while the certificate is written, success) and the mode it        *)
(* creates key.pem with are nondeterministic choices.                      *)
(***************************************************************************)
EXTENDS Integers, Sequences, FiniteSets, TLC

\* ---------------------------------------------------------------- bounds
\* Clock resolution: the code's clock counts milliseconds; the model's
\* clock counts 1/UnitsPerDay of a day, so that Math.floor has work to do.
UnitsPerDay == 2
\* The clock stops advancing after MaxDays days.
MaxDays == 750
\* At most MaxRuns openssl invocations in a behaviour.
MaxRuns == 2
\* At most MaxIfaces network interfaces in an enumerated interface list.
MaxIfaces == 2

\* ------------------------------------------------------------- constants
CERT_VALIDITY_DAYS == 365
EXPIRATION_WARNING_DAYS == 30
\* msPerDay of getDaysUntilExpiration, in clock units.
msPerDay == UnitsPerDay

\* 0o600, the mode generateCerts() sets on key.pem.
KEY_MODE == 384

VARIABLES
    now,         \* wall clock, in clock units
    interfaces,  \* os.networkInterfaces(): sequence of interfaces
    dirExists,   \* certs/ exists
    key,         \* certs/key.pem
    cert,        \* certs/cert.pem
    runs,        \* openssl invocations so far (counted round MaxRuns)
    pc,          \* position of the caller
    localIP,     \* generateCerts()'s local: the resolved IP
    cur,         \* the ensureCerts() call in progress or last finished
    prev,        \* the ensureCerts() call before it
    probe,       \* last result of an exported expiration query
    resolved,    \* last result of getServerURLs()'s getLocalIP() call
    setupIP,     \* localIP of the setup script's discovery loop
    server,      \* the server process: "down", "starting" or "listening"
    calls,       \* ensureCerts() calls made by the running server process
    loaded,      \* the key and certificate the HTTPS listener read
    response     \* last response to GET /certs/cert.pem

\* The variables of the setup script and of the server process.
extVars == <<setupIP, server, calls, loaded, response>>

vars == <<now, interfaces, dirExists, key, cert, runs, pc, localIP, cur, prev,
          probe, resolved, setupIP, server, calls, loaded, response>>

\* ------------------------------------------------------------ file system
NoKey == [exists |-> FALSE, mode |-> 0, serial |-> 0]
NoCert == [exists |-> FALSE, parsable |-> FALSE, notAfter |-> 0, ip |-> <<>>, serial |-> 0]

getCertPaths == [key |-> "certs/key.pem", cert |-> "certs/cert.pem"]
NoPaths == [key |-> "", cert |-> ""]

certsExist(k, c) == k.exists /\ c.exists

\* ------------------------------------------------------ expiration policy
\* A Date | null, or an exception escaping the function.
Null == [raised |-> FALSE, null |-> TRUE, time |-> 0]
Raised == [raised |-> TRUE, null |-> FALSE, time |-> 0]
DateOf(t) == [raised |-> FALSE, null |-> FALSE, time |-> t]

getCertExpiration_nocatch(c) ==
    IF ~c.exists THEN Null
    ELSE IF ~c.parsable THEN Raised
    ELSE DateOf(c.notAfter)

\* new crypto.X509Certificate(pem) throws on a file that is no certificate;
\* the catch turns that into null.
getCertExpiration(c) ==
    IF ~c.exists THEN Null
    ELSE IF ~c.parsable THEN Null
    ELSE DateOf(c.notAfter)

\* A number, or an exception escaping the function.
Num(n) == [raised |-> FALSE, val |-> n]
NumRaised == [raised |-> TRUE, val |-> 0]

\* Math.floor((expiration - now) / msPerDay); \div is floor division.
getDaysUntilExpiration(c, t) ==
    LET expiration == getCertExpiration(c)
    IN  IF expiration.raised THEN NumRaised
        ELSE IF expiration.null THEN Num(-1)
        ELSE Num((expiration.time - t) \div msPerDay)

Bool(b) == [raised |-> FALSE, val |-> b]
BoolRaised == [raised |-> TRUE, val |-> FALSE]

certNeedsRenewal_strict(c, t) ==
    LET daysLeft == getDaysUntilExpiration(c, t)
    IN  IF daysLeft.raised THEN BoolRaised
        ELSE Bool(daysLeft.val < 0 \/ daysLeft.val < EXPIRATION_WARNING_DAYS)

certNeedsRenewal(c, t) ==
    LET daysLeft == getDaysUntilExpiration(c, t)
    IN  IF daysLeft.raised THEN BoolRaised
        ELSE Bool(daysLeft.val < 0 \/ daysLeft.val <= EXPIRATION_WARNING_DAYS)

\* ------------------------------------------------------------ ensureCerts
\* The branch ensureCerts() takes: "reuse" (return getCertPaths()),
\* "generate" (return generateCerts()) or "throw".
ensureBranch_existsOnly(k, c, t) ==
    IF certsExist(k, c) THEN "reuse" ELSE "generate"

ensureBranch_always(k, c, t) == "generate"

ensureBranch_trustUnreadable(k, c, t) ==
    IF certsExist(k, c)
    THEN LET daysLeft == getDaysUntilExpiration(c, t)
         IN  IF daysLeft.raised THEN "throw"
             ELSE IF getCertExpiration(c) = Null THEN "reuse"
             ELSE IF daysLeft.val < 0 THEN "generate"
             ELSE IF daysLeft.val <= EXPIRATION_WARNING_DAYS THEN "generate"
             ELSE "reuse"
    ELSE "generate"

ensureBranch(k, c, t) ==
    IF certsExist(k, c)
    THEN LET daysLeft == getDaysUntilExpiration(c, t)
         IN  IF daysLeft.raised THEN "throw"
             ELSE IF daysLeft.val < 0 THEN "generate"
             ELSE IF daysLeft.val <= EXPIRATION_WARNING_DAYS THEN "generate"
             ELSE "reuse"
    ELSE "generate"

\* ------------------------------------------------------- network resolver
\* Strings are sequences of one-character strings.
Digits == {"0", "1", "2", "3", "4", "5", "6", "7", "8", "9"}
DigitVal(ch) ==
    CASE ch = "0" -> 0 [] ch = "1" -> 1 [] ch = "2" -> 2 [] ch = "3" -> 3
      [] ch = "4" -> 4 [] ch = "5" -> 5 [] ch = "6" -> 6 [] ch = "7" -> 7
      [] ch = "8" -> 8 [] ch = "9" -> 9

LOOPBACK == <<"1", "2", "7", ".", "0", ".", "0", ".", "1">>

\* Length of the run of digits of s that starts at position i.
RECURSIVE DigitRun(_, _)
DigitRun(s, i) ==
    IF i <= Len(s) /\ s[i] \in Digits THEN 1 + DigitRun(s, i + 1) ELSE 0

\* /^(\d{1,3}\.){3}\d{1,3}$/ from position i with `groups` dotted groups
\* left.  A group's digits are followed by a dot, so \d{1,3} must take the
\* whole run of digits: no other split of the run can match.
RECURSIVE RegexFrom(_, _, _)
RegexFrom(s, i, groups) ==
    LET n == DigitRun(s, i)
    IN  /\ n >= 1
        /\ n <= 3
        /\ IF groups = 0
           THEN i + n = Len(s) + 1
           ELSE /\ i + n <= Len(s)
                /\ s[i + n] = "."
                /\ RegexFrom(s, i + n + 1, groups - 1)

IPV4_REGEX(s) == RegexFrom(s, 1, 3)

\* ip.split('.'): the pieces between the dots, in order.
RECURSIVE Split(_, _, _)
Split(s, i, piece) ==
    IF i > Len(s) THEN <<piece>>
    ELSE IF s[i] = "." THEN <<piece>> \o Split(s, i + 1, <<>>)
    ELSE Split(s, i + 1, Append(piece, s[i]))

\* Number(piece): the decimal value of a string of digits (0 for the empty
\* string); NaN, which fails every comparison, is modelled as -1.
RECURSIVE NumberFrom(_, _, _)
NumberFrom(piece, i, acc) ==
    IF i > Len(piece) THEN acc
    ELSE IF piece[i] \in Digits THEN NumberFrom(piece, i + 1, 10 * acc + DigitVal(piece[i]))
    ELSE -1

Number(piece) == NumberFrom(piece, 1, 0)

isValidIPv4_regexOnly(ip) == IPV4_REGEX(ip)

isValidIPv4(ip) ==
    IF ~IPV4_REGEX(ip) THEN FALSE
    ELSE LET octets == [k \in DOMAIN Split(ip, 1, <<>>) |-> Number(Split(ip, 1, <<>>)[k])]
         IN  \A k \in DOMAIN octets : octets[k] >= 0 /\ octets[k] <= 255

\* The test of getLocalIP()'s inner loop.
Qualifies(iface) ==
    iface.family = "IPv4" /\ ~iface.internal /\ isValidIPv4(iface.address)

\* The inner loop over one interface's entries from position j: the first
\* qualifying address, or <<>> when the loop ends without returning.
RECURSIVE ScanEntries(_, _)
ScanEntries(entries, j) ==
    IF j > Len(entries) THEN <<>>
    ELSE IF Qualifies(entries[j]) THEN entries[j].address
    ELSE ScanEntries(entries, j + 1)

RECURSIVE ScanInterfaces_last(_, _)
ScanInterfaces_last(ifs, i) ==
    IF i > Len(ifs) THEN <<>>
    ELSE IF ScanInterfaces_last(ifs, i + 1) # <<>> THEN ScanInterfaces_last(ifs, i + 1)
    ELSE ScanEntries(ifs[i], 1)

\* The outer loop over the interfaces from position i.
RECURSIVE ScanInterfaces(_, _)
ScanInterfaces(ifs, i) ==
    IF i > Len(ifs) THEN <<>>
    ELSE IF ScanEntries(ifs[i], 1) # <<>> THEN ScanEntries(ifs[i], 1)
    ELSE ScanInterfaces(ifs, i + 1)

getLocalIP(ifs) ==
    IF ScanInterfaces(ifs, 1) # <<>> THEN ScanInterfaces(ifs, 1) ELSE LOOPBACK

\* ------------------------------------------- setup script's discovery loop
\* isValidIPv4 of scripts/setup.js, with its own copy of the regex.
setup_isValidIPv4(ip) ==
    IF ~RegexFrom(ip, 1, 3) THEN FALSE
    ELSE LET octets == [k \in DOMAIN Split(ip, 1, <<>>) |-> Number(Split(ip, 1, <<>>)[k])]
         IN  \A k \in DOMAIN octets : octets[k] >= 0 /\ octets[k] <= 255

\* The inner loop of the setup script over one interface's entries from
\* position j: the address it assigns to localIP before its break, or <<>>
\* when it assigns none.
RECURSIVE setup_ScanEntries(_, _)
setup_ScanEntries(entries, j) ==
    IF j > Len(entries) THEN <<>>
    ELSE IF /\ entries[j].family = "IPv4"
            /\ ~entries[j].internal
            /\ setup_isValidIPv4(entries[j].address)
         THEN entries[j].address
    ELSE setup_ScanEntries(entries, j + 1)

\* The outer loop from position i with localIP = acc: the break leaves the
\* inner loop only, so the outer loop goes on to the next interface.
RECURSIVE setup_ScanInterfaces(_, _, _)
setup_ScanInterfaces(ifs, i, acc) ==
    IF i > Len(ifs) THEN acc
    ELSE setup_ScanInterfaces(ifs, i + 1,
            IF setup_ScanEntries(ifs[i], 1) # <<>>
            THEN setup_ScanEntries(ifs[i], 1) ELSE acc)

\* let localIP = '127.0.0.1'; for ... for ... { localIP = ...; break; }
setup_localIP(ifs) == setup_ScanInterfaces(ifs, 1, LOOPBACK)

\* The subjectAltName list, the resolved IP last: generateCerts() joins four
\* entries with commas, the setup script writes them in one template.
altNames(ip) == <<"DNS:sticker.local", "DNS:localhost", "IP:127.0.0.1", <<"IP:", ip>>>>
setup_altNames(ip) == <<"DNS:sticker.local", "DNS:localhost", "IP:127.0.0.1", <<"IP:", ip>>>>

\* Interface entries the platform may report.
Entry(f, int, a) == [family |-> f, internal |-> int, address |-> a]
Entries ==
    { Entry("IPv4", TRUE, LOOPBACK),
      Entry("IPv6", FALSE, <<"f", "e", "8", "0", ":", ":", "1">>),
      Entry("IPv4", FALSE, <<"1", "0", ".", "0", ".", "0", ".", "5">>),
      Entry("IPv4", FALSE, <<"1", "9", "2", ".", "1", "6", "8", ".", "1", ".", "2", "0">>),
      Entry("IPv4", FALSE, <<"2", "5", "6", ".", "0", ".", "0", ".", "1">>),
      Entry("IPv4", FALSE, <<"1", ".", "2", ".", "3">>) }

\* One interface: no entry, one entry or two.
Ifaces ==
    {<<>>} \cup {<<e>> : e \in Entries} \cup {<<e, f>> : e \in Entries, f \in Entries}

RECURSIVE SeqsUpTo(_, _)
SeqsUpTo(S, n) ==
    IF n = 0 THEN {<<>>}
    ELSE LET shorter == SeqsUpTo(S, n - 1)
         IN  shorter \cup {Append(q, x) : q \in shorter, x \in S}

IfaceLists == SeqsUpTo(Ifaces, MaxIfaces)

\* Interface lists the lifecycle specification moves between: loopback
\* only, and loopback with a malformed address before a valid one.
SampleNetworks ==
    { << <<Entry("IPv4", TRUE, LOOPBACK)>> >>,
      << <<Entry("IPv4", TRUE, LOOPBACK)>>,
         <<Entry("IPv4", FALSE, <<"2", "5", "6", ".", "0", ".", "0", ".", "1">>),
           Entry("IPv4", FALSE, <<"1", "9", "2", ".", "1", "6", "8", ".", "1", ".", "2", "0">>)>> >> }

\* What a finished call leaves for the comparison with the next one.
Summary(call) == [t |-> call.t, made |-> call.made, out |-> call.out, ret |-> call.ret]

\* ---------------------------------------------------------- generateCerts
\* What the openssl subprocess can do: succeed; be missing (ENOENT); exit
\* non-zero before writing anything; exit non-zero after writing the key and
\* before writing the certificate; fail with an I/O error while writing the
\* certificate, leaving a truncated file.
OpensslOutcomes == {"ok", "enoent", "exit_early", "exit_after_key", "io_error"}

\* Mode of a key file the subprocess creates: 0o600 when the tool opens
\* private output owner-only, 0o644 when it creates it under umask 022.
OpensslCreateModes == {KEY_MODE, 6 * 64 + 4 * 8 + 4}

\* key.pem after the subprocess ran: an existing file is truncated and
\* rewritten and keeps its mode, a new file gets the creation mode.
KeyAfterOpenssl(k, outcome, createMode, serial) ==
    IF outcome \in {"ok", "exit_after_key", "io_error"}
    THEN [exists |-> TRUE,
          mode |-> IF k.exists THEN k.mode ELSE createMode,
          serial |-> serial]
    ELSE k

CertAfterOpenssl_shortLived(c, outcome, t, ip, serial) ==
    CASE outcome = "ok" ->
           [exists |-> TRUE, parsable |-> TRUE,
            notAfter |-> t + EXPIRATION_WARNING_DAYS * UnitsPerDay,
            ip |-> ip, serial |-> serial]
      [] outcome = "io_error" ->
           [exists |-> TRUE, parsable |-> FALSE, notAfter |-> 0, ip |-> <<>>,
            serial |-> serial]
      [] OTHER -> c

\* cert.pem after the subprocess ran; -days CERT_VALIDITY_DAYS counts from
\* the time of the run.
CertAfterOpenssl(c, outcome, t, ip, serial) ==
    CASE outcome = "ok" ->
           [exists |-> TRUE, parsable |-> TRUE,
            notAfter |-> t + CERT_VALIDITY_DAYS * UnitsPerDay,
            ip |-> ip, serial |-> serial]
      [] outcome = "io_error" ->
           [exists |-> TRUE, parsable |-> FALSE, notAfter |-> 0, ip |-> <<>>,
            serial |-> serial]
      [] OTHER -> c

\* execFileSync throws when the tool is missing or exits non-zero.
execFileSyncThrows(outcome) == outcome # "ok"

\* The catch block: where generateCerts() goes when the try block throws.
OnCatch_swallow == "returned"

OnCatch == "threw"

chmodSync_noop(k, mode) == k

chmodSync(k, mode) == [k EXCEPT !.mode = mode]

\* ----------------------------------------------------------------- state
Quiescent == {"idle", "returned", "threw"}

NoCall == [t |-> -1, key0 |-> NoKey, cert0 |-> NoCert, made |-> 0,
           sub |-> "none", out |-> "none", ret |-> NoPaths]
NoProbe == [t |-> -1, exists |-> FALSE, parsable |-> FALSE, notAfter |-> 0,
            days |-> Num(0), renew |-> Bool(FALSE)]
NotResolved == [called |-> FALSE, ip |-> <<>>]
NotLoaded == [read |-> FALSE, key |-> NoKey, cert |-> NoCert]
NoResponse == [status |-> 0, body |-> NoCert]

InitFiles ==
    /\ now = 0
    /\ dirExists = FALSE
    /\ key = NoKey
    /\ cert = NoCert
    /\ runs = 0
    /\ pc = "idle"
    /\ localIP = <<>>
    /\ cur = NoCall
    /\ prev = Summary(NoCall)
    /\ probe = NoProbe
    /\ resolved = NotResolved
    /\ setupIP = NotResolved
    /\ server = "down"
    /\ calls = 0
    /\ loaded = NotLoaded
    /\ response = NoResponse

\* A fresh checkout: no certs/ directory.
Init ==
    /\ interfaces \in SampleNetworks
    /\ InitFiles

\* ensureCerts(), up to its return or its call of generateCerts(), whoever
\* the caller is.
ensureCertsCall ==
    /\ pc \in Quiescent
    /\ LET branch == ensureBranch(key, cert, now)
       IN  /\ pc' = CASE branch = "reuse" -> "returned"
                      [] branch = "generate" -> "generate"
                      [] OTHER -> "threw"
           /\ cur' = [t |-> now, key0 |-> key, cert0 |-> cert, made |-> 0,
                      sub |-> "none",
                      out |-> CASE branch = "reuse" -> "paths"
                                [] branch = "generate" -> "pending"
                                [] OTHER -> "error",
                      ret |-> IF branch = "reuse" THEN getCertPaths ELSE NoPaths]
    /\ prev' = Summary(cur)
    /\ UNCHANGED <<now, interfaces, dirExists, key, cert, runs, localIP, probe, resolved>>

\* A call of ensureCerts() outside a server process.
EnsureCerts ==
    /\ runs < MaxRuns
    /\ ensureCertsCall
    /\ UNCHANGED extVars

\* generateCerts(): mkdirSync when certs/ is absent, getLocalIP(), the
\* argument list.
GenPrepare ==
    /\ pc = "generate"
    /\ dirExists' = TRUE
    /\ localIP' = getLocalIP(interfaces)
    /\ pc' = "exec"
    /\ UNCHANGED <<now, interfaces, key, cert, runs, cur, prev, probe, resolved>>
    /\ UNCHANGED extVars

\* generateCerts(): execFileSync('openssl', args), blocking until it exits.
RunOpenssl ==
    /\ pc = "exec"
    /\ \E outcome \in OpensslOutcomes, createMode \in OpensslCreateModes :
          /\ key' = KeyAfterOpenssl(key, outcome, createMode, (runs % MaxRuns) + 1)
          /\ cert' = CertAfterOpenssl(cert, outcome, now, localIP, (runs % MaxRuns) + 1)
          /\ IF execFileSyncThrows(outcome)
             THEN /\ pc' = OnCatch
                  /\ cur' = [cur EXCEPT !.made = @ + 1, !.sub = outcome,
                                        !.out = IF OnCatch = "threw" THEN "error" ELSE "paths",
                                        !.ret = IF OnCatch = "threw" THEN NoPaths ELSE getCertPaths]
             ELSE /\ pc' = "chmod"
                  /\ cur' = [cur EXCEPT !.made = @ + 1, !.sub = outcome]
    /\ runs' = (runs % MaxRuns) + 1
    /\ UNCHANGED <<now, interfaces, dirExists, localIP, prev, probe, resolved>>
    /\ UNCHANGED extVars

\* generateCerts(): chmodSync(KEY_PATH, 0o600) and return getCertPaths().
Chmod ==
    /\ pc = "chmod"
    /\ key' = chmodSync(key, KEY_MODE)
    /\ pc' = "returned"
    /\ cur' = [cur EXCEPT !.out = "paths", !.ret = getCertPaths]
    /\ UNCHANGED <<now, interfaces, dirExists, cert, runs, localIP, prev, probe, resolved>>
    /\ UNCHANGED extVars

\* Time passes between calls; the calls themselves are synchronous and take
\* no time at the clock's resolution.
TickSteps ==
    { 334 * UnitsPerDay, 334 * UnitsPerDay + 1, 335 * UnitsPerDay,
      CERT_VALIDITY_DAYS * UnitsPerDay }

Tick ==
    /\ pc \in Quiescent
    /\ \E d \in TickSteps :
          /\ now + d <= MaxDays * UnitsPerDay
          /\ now' = now + d
    /\ UNCHANGED <<interfaces, dirExists, key, cert, runs, pc, localIP, cur, prev, probe, resolved>>
    /\ UNCHANGED extVars

\* The machine's addresses change (DHCP lease, cable unplugged).
NetworkChange ==
    /\ pc \in Quiescent
    /\ \E l \in SampleNetworks \ {interfaces} : interfaces' = l
    /\ UNCHANGED <<now, dirExists, key, cert, runs, pc, localIP, cur, prev, probe, resolved>>
    /\ UNCHANGED extVars

\* A call of the exported getDaysUntilExpiration() and certNeedsRenewal().
QueryExpiration ==
    /\ pc \in Quiescent
    /\ probe' = [t |-> now, exists |-> cert.exists, parsable |-> cert.parsable,
                 notAfter |-> cert.notAfter,
                 days |-> getDaysUntilExpiration(cert, now),
                 renew |-> certNeedsRenewal(cert, now)]
    /\ UNCHANGED <<now, interfaces, dirExists, key, cert, runs, pc, localIP, cur, prev, resolved>>
    /\ UNCHANGED extVars

Next ==
    \/ EnsureCerts
    \/ GenPrepare
    \/ RunOpenssl
    \/ Chmod
    \/ Tick
    \/ NetworkChange
    \/ QueryExpiration

Spec == Init /\ [][Next]_vars

\* -------------------------------------------- resolver as a pure function
\* getServerURLs(): const ip = getLocalIP().
GetServerURLs ==
    /\ pc \in Quiescent
    /\ resolved' = [called |-> TRUE, ip |-> getLocalIP(interfaces)]
    /\ UNCHANGED <<now, interfaces, dirExists, key, cert, runs, pc, localIP, cur, prev, probe>>
    /\ UNCHANGED extVars

InitNet ==
    /\ interfaces \in IfaceLists
    /\ InitFiles

NextNet == GetServerURLs

SpecNet == InitNet /\ [][NextNet]_vars

\* ---------------------------------------------------------- server process
\* Where the server module calls ensureCerts(): in its top-level code, which
\* runs once when the process starts, before serve().
ensureCertsCallSite_timer(srv, n) == (srv = "starting" /\ n = 0) \/ srv = "listening"

ensureCertsCallSite(srv, n) == srv = "starting" /\ n = 0

\* The handler of GET /certs/cert.pem: the file's bytes, or 404 when
\* fs.promises.readFile rejects.
certResponse_nocatch(c) ==
    IF c.exists THEN [status |-> 200, body |-> c] ELSE [status |-> 500, body |-> NoCert]

certResponse(c) ==
    IF c.exists THEN [status |-> 200, body |-> c] ELSE [status |-> 404, body |-> NoCert]

\* The server process starts and runs the module's top-level code.
StartServer ==
    /\ server = "down"
    /\ pc \in Quiescent
    /\ runs < MaxRuns
    /\ server' = "starting"
    /\ calls' = 0
    /\ loaded' = NotLoaded
    /\ UNCHANGED <<now, interfaces, dirExists, key, cert, runs, pc, localIP, cur, prev,
                   probe, resolved, setupIP, response>>

\* const certPaths = ensureCerts();
ServerEnsureCerts ==
    /\ ensureCertsCallSite(server, calls)
    /\ ensureCertsCall
    /\ calls' = calls + 1
    /\ UNCHANGED <<setupIP, server, loaded, response>>

\* serve({... key: readFileSync(certPaths.key), cert: readFileSync(...)}):
\* the listener starts with what the two files hold; a missing file throws
\* and ends the process.
Serve ==
    /\ server = "starting"
    /\ calls = 1
    /\ pc = "returned"
    /\ IF key.exists /\ cert.exists
       THEN server' = "listening" /\ loaded' = [read |-> TRUE, key |-> key, cert |-> cert]
       ELSE server' = "down" /\ loaded' = loaded
    /\ UNCHANGED <<now, interfaces, dirExists, key, cert, runs, pc, localIP, cur, prev,
                   probe, resolved, setupIP, calls, response>>

\* ensureCerts() threw in the top-level code: the process ends.
Crash ==
    /\ server = "starting"
    /\ calls = 1
    /\ pc = "threw"
    /\ server' = "down"
    /\ UNCHANGED <<now, interfaces, dirExists, key, cert, runs, pc, localIP, cur, prev,
                   probe, resolved, setupIP, calls, loaded, response>>

\* app.get('/certs/cert.pem', ...) answers a request.
HandleCertRequest ==
    /\ server = "listening"
    /\ response' = certResponse(cert)
    /\ UNCHANGED <<now, interfaces, dirExists, key, cert, runs, pc, localIP, cur, prev,
                   probe, resolved, setupIP, server, calls, loaded>>

\* The user deletes the certs/ folder (README, Certificate Renewal).
DeleteCerts ==
    /\ pc \in Quiescent
    /\ dirExists
    /\ dirExists' = FALSE
    /\ key' = NoKey
    /\ cert' = NoCert
    /\ UNCHANGED <<now, interfaces, runs, pc, localIP, cur, prev, probe, resolved>>
    /\ UNCHANGED extVars

\* The listening process is stopped (shutdown, reboot).
StopServer ==
    /\ server = "listening"
    /\ server' = "down"
    /\ UNCHANGED <<now, interfaces, dirExists, key, cert, runs, pc, localIP, cur, prev,
                   probe, resolved, setupIP, calls, loaded, response>>

NextServer ==
    \/ StartServer
    \/ ServerEnsureCerts
    \/ GenPrepare
    \/ RunOpenssl
    \/ Chmod
    \/ Serve
    \/ Crash
    \/ HandleCertRequest
    \/ DeleteCerts
    \/ StopServer
    \/ Tick

SpecServer == Init /\ [][NextServer]_vars

\* ------------------------------------------- repeated calls, fair generator
\* ensureCerts() called again and again, once per process start, with no
\* limit on the number of calls.
EnsureCertsAgain ==
    /\ ensureCertsCall
    /\ UNCHANGED extVars

\* The openssl subprocess ran and exited with status 0.
RunOpensslOk == RunOpenssl /\ cur'.sub = "ok"

\* The next step of the caller: pc enables exactly one of the four.
CallStep == EnsureCertsAgain \/ GenPrepare \/ RunOpenssl \/ Chmod

\* A certificate lifetime passes between two calls.
TickLifetime == Tick /\ now' = now + CERT_VALIDITY_DAYS * UnitsPerDay

NextLive ==
    \/ EnsureCertsAgain
    \/ GenPrepare
    \/ RunOpenssl
    \/ Chmod
    \/ TickLifetime

\* The synchronous steps of a call always complete, the call is repeated as
\* long as it changes anything, and a subprocess that is run again and again
\* eventually succeeds.
SpecLive ==
    /\ Init
    /\ [][NextLive]_vars
    /\ WF_vars(CallStep)
    /\ SF_vars(RunOpensslOk)

\* --------------------------------- setup script and resolver side by side
\* The setup script's step 4 when certificates must be generated: the
\* discovery loop that picks the IP for the subjectAltName.
SetupDiscoverIP ==
    /\ pc \in Quiescent
    /\ setupIP' = [called |-> TRUE, ip |-> setup_localIP(interfaces)]
    /\ UNCHANGED <<now, interfaces, dirExists, key, cert, runs, pc, localIP, cur, prev,
                   probe, resolved, server, calls, loaded, response>>

NextSetup == GetServerURLs \/ SetupDiscoverIP

SpecSetup == InitNet /\ [][NextSetup]_vars

\* ================================================================ claims
\* A call of ensureCerts() has finished (returned or thrown) and no other
\* call has started since.
Finished == pc \in {"returned", "threw"}

\* The state an ensureCerts() call started in (section 4.5 of the spec).
StartState(call) ==
    IF ~(call.key0.exists /\ call.cert0.exists) THEN "Missing"
    ELSE LET daysLeft == getDaysUntilExpiration(call.cert0, call.t).val
         IN  IF daysLeft < 0 THEN "Expired"
             ELSE IF daysLeft <= EXPIRATION_WARNING_DAYS THEN "ExpiringSoon"
             ELSE "Valid"

\* No access for group or other: the low six permission bits are clear.
OwnerOnly(mode) == mode % 64 = 0

C2_FailurePropagates ==
    (cur.sub \in OpensslOutcomes \ {"ok"})
        => (pc = "threw" /\ cur.out = "error" /\ cur.ret = NoPaths)

\* C2 witness: a regeneration over an existing pair failed part-way, so a
\* stale certificate and a rewritten key are on disk, and the call threw.
C2_Witness ==
    /\ pc = "threw"
    /\ cur.sub = "exit_after_key"
    /\ cur.key0.exists
    /\ cur.cert0.exists
    /\ cert = cur.cert0

\* C3: a finished call that started in Missing, ExpiringSoon or Expired
\* invoked openssl exactly once, and when it returned paths both files exist
\* and the certificate has more than 30 days left at the time of the call,
\* so certNeedsRenewal() is false.
C3_RegenerateToValid ==
    (Finished /\ StartState(cur) # "Valid")
        => /\ cur.made = 1
           /\ (cur.out = "paths" /\ now = cur.t)
                 => /\ certsExist(key, cert)
                    /\ getDaysUntilExpiration(cert, now) \in
                          {Num(d) : d \in (EXPIRATION_WARNING_DAYS + 1)..CERT_VALIDITY_DAYS}
                    /\ certNeedsRenewal(cert, now) = Bool(FALSE)

\* C3 witness: a call that found a certificate with exactly 30 days left
\* regenerated it and returned.
C3_Witness ==
    /\ pc = "returned"
    /\ StartState(cur) = "ExpiringSoon"
    /\ getDaysUntilExpiration(cur.cert0, cur.t) = Num(EXPIRATION_WARNING_DAYS)
    /\ cur.made = 1
    /\ now = cur.t

\* C4: a call that started in Valid has returned the existing paths without
\* invoking openssl, and key.pem (content and mode) and cert.pem are what
\* they were when it started.
C4_ValidIsNoOp ==
    (cur.t >= 0 /\ StartState(cur) = "Valid")
        => /\ pc = "returned"
           /\ cur.made = 0
           /\ cur.ret = getCertPaths
           /\ key = cur.key0
           /\ cert = cur.cert0

\* C4 witness: a call that found a certificate with 31 days left.
C4_Witness ==
    /\ pc = "returned"
    /\ cur.cert0.exists
    /\ cur.cert0.parsable
    /\ cur.cert0.notAfter - cur.t = (EXPIRATION_WARNING_DAYS + 1) * UnitsPerDay
    /\ cur.made = 0

\* Time left on the certificate an expiration query read.
ProbeLeft == probe.notAfter - probe.t
ProbeParsed == probe.t >= 0 /\ probe.exists /\ probe.parsable

\* C5 as stated: certNeedsRenewal() is false for every certificate whose
\* notAfter is more than 30 days after now, and true at exactly 30 days.
C5_Threshold_AsStated ==
    ProbeParsed
        => /\ (ProbeLeft > EXPIRATION_WARNING_DAYS * UnitsPerDay) => (probe.renew = Bool(FALSE))
           /\ (ProbeLeft = EXPIRATION_WARNING_DAYS * UnitsPerDay) => (probe.renew = Bool(TRUE))

\* C5 amended: certNeedsRenewal() is false for every certificate whose
\* notAfter is at least 31 days after now, and true for every certificate
\* whose notAfter is less than 31 days after now, exactly 30 days included.
C5_Threshold ==
    ProbeParsed
        => /\ (ProbeLeft >= (EXPIRATION_WARNING_DAYS + 1) * UnitsPerDay) => (probe.renew = Bool(FALSE))
           /\ (ProbeLeft < (EXPIRATION_WARNING_DAYS + 1) * UnitsPerDay) => (probe.renew = Bool(TRUE))

\* C5 witness: a query on a certificate with exactly 30 days left.
C5_Witness ==
    /\ ProbeParsed
    /\ ProbeLeft = EXPIRATION_WARNING_DAYS * UnitsPerDay
    /\ probe.renew = Bool(TRUE)

\* C6: after a generateCerts() that returned paths, key.pem exists with
\* mode 0o600: no access for group or other.
C6_KeyOwnerOnlyAfterGeneration ==
    (pc = "returned" /\ cur.made = 1)
        => (key.exists /\ OwnerOnly(key.mode) /\ key.mode = KEY_MODE)

\* C6 witness: a regeneration that found key.pem readable by group and
\* other returned.
C6_Witness ==
    /\ pc = "returned"
    /\ cur.made = 1
    /\ cur.key0.exists
    /\ ~OwnerOnly(cur.key0.mode)

\* C7 as stated: whenever key.pem exists, also during a generation and after
\* a failed one, it grants no access to group or other.
C7_KeyNeverExposed == key.exists => OwnerOnly(key.mode)

\* C8 as stated: in every state key.pem and cert.pem exist together or
\* neither exists.
C8_PairTogether == key.exists <=> cert.exists

\* C9: for a missing or unparsable certificate file getDaysUntilExpiration()
\* returns -1 and certNeedsRenewal() returns true, neither raising.
C9_UnreadableIsExpired ==
    (probe.t >= 0 /\ ~(probe.exists /\ probe.parsable))
        => (probe.days = Num(-1) /\ probe.renew = Bool(TRUE))

\* C9 witness: a query on a truncated certificate file.
C9_Witness ==
    /\ probe.t >= 0
    /\ probe.exists
    /\ ~probe.parsable
    /\ probe.days = Num(-1)

\* Strict IPv4 syntax, stated on the positions of the dots: exactly three
\* dots, and each of the four stretches between them is one to three digits
\* with a value of at most 255.
OctetOk(a, lo, hi) ==
    /\ hi - lo \in 0..2
    /\ \A i \in lo..hi : a[i] \in Digits
    /\ LET v(i) == IF i >= lo THEN DigitVal(a[i]) ELSE 0
       IN  v(hi) + 10 * v(hi - 1) + 100 * v(hi - 2) <= 255

StrictIPv4(a) ==
    LET dots == {i \in 1..Len(a) : a[i] = "."}
    IN  /\ Cardinality(dots) = 3
        /\ \A i \in dots \cup {0} :
              LET later == {j \in dots \cup {Len(a) + 1} : j > i}
                  stop == CHOOSE j \in later : \A k \in later : j <= k
              IN  OctetOk(a, i + 1, stop - 1)

\* An interface list has an entry that is IPv4, not internal and valid.
HasQualifying(ifs) ==
    \E i \in 1..Len(ifs) : \E j \in 1..Len(ifs[i]) :
        /\ ifs[i][j].family = "IPv4"
        /\ ~ifs[i][j].internal
        /\ StrictIPv4(ifs[i][j].address)

\* C10: the address getLocalIP() returned passes strict IPv4 validation, and
\* it is 127.0.0.1 when no entry of the interface list qualifies.
C10_ResolvedIsValidIPv4 ==
    resolved.called
        => /\ StrictIPv4(resolved.ip)
           /\ ~HasQualifying(interfaces) => resolved.ip = LOOPBACK

\* C10 witness: the only external IPv4 entries carry malformed addresses
\* and the resolver fell back to the loopback address.
C10_Witness ==
    /\ resolved.called
    /\ resolved.ip = LOOPBACK
    /\ \E i \in 1..Len(interfaces) : \E j \in 1..Len(interfaces[i]) :
          /\ interfaces[i][j].family = "IPv4"
          /\ ~interfaces[i][j].internal
          /\ ~StrictIPv4(interfaces[i][j].address)

\* The first entry, in enumeration order (interfaces in order, entries of an
\* interface in order), that is IPv4, not internal and valid.
QualifyingAt(ifs) ==
    {p \in UNION {{<<i, j>> : j \in 1..Len(ifs[i])} : i \in 1..Len(ifs)} :
        /\ ifs[p[1]][p[2]].family = "IPv4"
        /\ ~ifs[p[1]][p[2]].internal
        /\ StrictIPv4(ifs[p[1]][p[2]].address)}

FirstQualifying(ifs) ==
    LET first == CHOOSE p \in QualifyingAt(ifs) :
                    \A q \in QualifyingAt(ifs) :
                        p[1] < q[1] \/ (p[1] = q[1] /\ p[2] <= q[2])
    IN  ifs[first[1]][first[2]].address

\* C11: for an interface list with a qualifying entry, getLocalIP() returned
\* the address of the first qualifying entry in enumeration order.
C11_FirstQualifyingWins ==
    (resolved.called /\ QualifyingAt(interfaces) # {})
        => resolved.ip = FirstQualifying(interfaces)

\* C11 witness: two interfaces carry different qualifying addresses, after
\* a malformed one, and the resolver returned the first interface's.
C11_Witness ==
    /\ resolved.called
    /\ Len(interfaces) = 2
    /\ Len(interfaces[1]) = 2
    /\ ~StrictIPv4(interfaces[1][1].address)
    /\ <<1, 2>> \in QualifyingAt(interfaces)
    /\ <<2, 1>> \in QualifyingAt(interfaces)
    /\ interfaces[1][2].address # interfaces[2][1].address
    /\ resolved.ip = interfaces[1][2].address

\* C14 as stated: for every interface list the setup script's loop selects
\* the address getLocalIP() returns, so both generators write the same
\* subjectAltName list.
C14_SetupAgreesWithResolver ==
    (resolved.called /\ setupIP.called)
        => /\ setupIP.ip = resolved.ip
           /\ setup_altNames(setupIP.ip) = altNames(resolved.ip)

\* C12: a request for /certs/cert.pem made while the file is absent is
\* answered 404 and one made while it is readable is answered with its
\* bytes; either way the server is listening afterwards, so it can answer
\* the next request.
C12_MissingCertIs404 ==
    [][(response' # response)
          => /\ server' = "listening"
             /\ IF cert.exists
                THEN response'.status = 200 /\ response'.body = cert
                ELSE response'.status = 404]_vars

\* C12 witness: the listener started with a certificate, the file was
\* deleted afterwards, a request got 404 and the server is still listening.
C12_Witness ==
    /\ server = "listening"
    /\ loaded.read
    /\ loaded.cert.exists
    /\ ~cert.exists
    /\ response.status = 404

\* C13: a listening server process has called ensureCerts() exactly once and
\* that call returned paths; the listener starts only after that return,
\* with the files as they are then; and while the process keeps listening
\* no ensureCerts() or openssl step happens, whatever the clock does.
C13_EnsureOncePerProcess ==
    /\ [](server = "listening" => (calls = 1 /\ cur.out = "paths" /\ loaded.read))
    /\ [][(server # "listening" /\ server' = "listening")
             => (pc = "returned" /\ calls = 1 /\ loaded'.key = key /\ loaded'.cert = cert)]_vars
    /\ [][(server = "listening")
             => (runs' = runs /\ pc' = pc /\ cur' = cur /\ calls' = calls)]_vars

\* C13 witness: a process still listening with the certificate it loaded at
\* startup although that certificate has expired since.
C13_Witness ==
    /\ server = "listening"
    /\ cert.exists
    /\ loaded.cert = cert
    /\ getDaysUntilExpiration(cert, now).val < 0

\* An ensureCerts() call has just returned paths with both files present
\* and a certificate that has more than 30 days left.
ReturnedValid ==
    /\ pc = "returned"
    /\ cur.out = "paths"
    /\ cur.t = now
    /\ certsExist(key, cert)
    /\ getDaysUntilExpiration(cert, now).val > EXPIRATION_WARNING_DAYS

\* C15: with ensureCerts() called repeatedly and a generator that eventually
\* succeeds, from every state that is reached, the states a failed generation
\* leaves included, a call returning paths with both files present and a
\* Valid certificate lies ahead.
C15_EventuallyValid == []<>ReturnedValid

\* C15 witness: after a generation that failed part-way and left a key
\* without a certificate, the next call returned a Valid pair.
C15_Witness ==
    /\ ReturnedValid
    /\ prev.out = "error"
    /\ cur.key0.exists
    /\ ~cur.cert0.exists
====
